---- MODULE Spec2Model ----
(***************************************************************************)
(* State-machine model of src/main.py: CryptoManager (XOR masking),        *)
(* MessageStore (messages with optional expiry) and P2PChatApp (connect,   *)
(* send, wipe, refresh_chat and the perpetual auto_refresh task).           *)
(*                                                                         *)
(* Text is a sequence of one-character strings, bytes are sequences of     *)
(* integers 0..255, time.time() is the integer variable now.               *)
(***************************************************************************)
EXTENDS Integers, Sequences, FiniteSets, TLC

\* ------------------------------------------------------------------ bounds
MaxClock == 2
MaxAdds == 2
MaxPlainLen == 3
MaxKeyLen == 2
MaxStoreAdds == 3

\* ------------------------------------------------------- program constants
NoneNum == -1
KeyPadWidth == 64
IdPrefixLen == 8

NoneBytes == <<-1>>
NoneText == <<"None">>

VARIABLES
    now,           \* time.time()
    messages,      \* MessageStore.messages (the list object self.messages names)
    nadded,        \* number of add() calls so far: the identity of each message
    log,           \* history: for each add() its clock, its ttl, whether wiped since
    lastRead,      \* history: what the last get_all() returned, and when
    held,          \* the list object the auto_refresh task iterates over
    aliased,       \* whether held is still the object self.messages names
    arpc,          \* position of the auto_refresh task
    chat_list,     \* chat_list.controls
    is_connected,  \* P2PChatApp.is_connected
    peer_id,       \* P2PChatApp.peer_id
    peer_key,      \* CryptoManager.peer_key
    status_text,   \* status_text.value
    connect_btn,   \* connect_btn.text
    raised,        \* whether the last handler let an exception reach its caller
    crypto_io      \* arguments and results of the last encrypt / decrypt calls

storeVars == <<messages, nadded, log, lastRead, held, aliased>>
connVars == <<is_connected, peer_id, peer_key, status_text, connect_btn>>
vars == <<now, messages, nadded, log, lastRead, held, aliased, arpc, chat_list,
          is_connected, peer_id, peer_key, status_text, connect_btn, raised,
          crypto_io>>

\* ------------------------------------------------------------ text helpers
Min(a, b) == IF a < b THEN a ELSE b

Whitespace == {" "}

RECURSIVE LStrip(_)
LStrip(s) == IF s # <<>> /\ Head(s) \in Whitespace THEN LStrip(Tail(s)) ELSE s

RECURSIVE RStrip(_)
RStrip(s) ==
    IF s # <<>> /\ s[Len(s)] \in Whitespace
    THEN RStrip(SubSeq(s, 1, Len(s) - 1))
    ELSE s

\* str.strip()
Strip(s) == RStrip(LStrip(s))

\* str.ljust(width, fill): pads on the right, never truncates
Ljust(s, width, fill) ==
    IF Len(s) >= width THEN s ELSE s \o [i \in 1..(width - Len(s)) |-> fill]

\* s[:n]
Take(s, n) == SubSeq(s, 1, Min(n, Len(s)))

DecimalChars == <<"0", "1", "2", "3", "4", "5", "6", "7", "8", "9">>
HexLower == DecimalChars \o <<"a", "b", "c", "d", "e", "f">>
HexUpper == DecimalChars \o <<"A", "B", "C", "D", "E", "F">>

Range(f) == {f[i] : i \in DOMAIN f}

HexChars == Range(HexLower) \cup Range(HexUpper)
IsHex(c) == c \in HexChars
HexVal(c) == (CHOOSE i \in 1..16 : HexLower[i] = c \/ HexUpper[i] = c) - 1

IsDecimal(c) == c \in Range(DecimalChars)
DecimalVal(c) == (CHOOSE i \in 1..10 : DecimalChars[i] = c) - 1

\* str(n) for n >= 0
RECURSIVE ToDec(_)
ToDec(n) ==
    IF n < 10 THEN <<DecimalChars[n + 1]>>
    ELSE ToDec(n \div 10) \o <<DecimalChars[(n % 10) + 1]>>

\* bytes.fromhex: whitespace is skipped between bytes only, each byte is two
\* hex digits; the first offending position (0-based) is reported otherwise.
RECURSIVE SkipSpace(_, _)
SkipSpace(s, i) ==
    IF i <= Len(s) /\ s[i] \in Whitespace THEN SkipSpace(s, i + 1) ELSE i

RECURSIVE FromHexAt(_, _, _)
FromHexAt(s, i, acc) ==
    LET j == SkipSpace(s, i) IN
    IF j > Len(s) THEN [ok |-> TRUE, bytes |-> acc, pos |-> 0]
    ELSE IF ~IsHex(s[j]) THEN [ok |-> FALSE, bytes |-> <<>>, pos |-> j - 1]
    ELSE IF j + 1 > Len(s) \/ ~IsHex(s[j + 1])
         THEN [ok |-> FALSE, bytes |-> <<>>, pos |-> j]
    ELSE FromHexAt(s, j + 2, Append(acc, 16 * HexVal(s[j]) + HexVal(s[j + 1])))

FromHex(s) == FromHexAt(s, 1, <<>>)

\* Python truthiness of an optional number and of optional bytes
TruthyNum(x) == x # NoneNum /\ x # 0
TruthyBytes(b) == b # NoneBytes /\ b # <<>>

\* ------------------------------------------------------------ CryptoManager
RECURSIVE BitXor(_, _)
BitXor(a, b) ==
    IF a = 0 /\ b = 0 THEN 0
    ELSE (((a % 2) + (b % 2)) % 2) + (2 * BitXor(a \div 2, b \div 2))

\* bytes * n
RECURSIVE Repeat(_, _)
Repeat(b, n) == IF n <= 0 THEN <<>> ELSE b \o Repeat(b, n - 1)

\* a tiling bug: the key is used once, so zip stops at the key's length
KeyStream_untiled(key, n) == SubSeq(key, 1, Min(n, Len(key)))

\* peer_key * (len(plaintext) // len(peer_key) + 1), cut to [:len(plaintext)]
KeyStream(key, n) ==
    LET tiled == Repeat(key, (n \div Len(key)) + 1)
    IN  SubSeq(tiled, 1, Min(n, Len(tiled)))

\* CryptoManager.encrypt with self.peer_key = key
encrypt(key, plaintext) ==
    IF ~TruthyBytes(key) THEN plaintext
    ELSE LET ks == KeyStream(key, Len(plaintext))
         IN  [i \in 1..Min(Len(plaintext), Len(ks)) |-> BitXor(plaintext[i], ks[i])]

\* CryptoManager.decrypt
decrypt(key, ciphertext) == encrypt(key, ciphertext)

\* CryptoManager.set_peer_key
set_peer_key(k) == peer_key' = k

\* ------------------------------------------------------------- MessageStore
\* time.strftime("%H:%M") of the clock (UTC)
TimeLabel(t) == <<(t \div 3600) % 24, (t \div 60) % 60>>

StoreState ==
    [messages |-> messages, nadded |-> nadded, log |-> log,
     lastRead |-> lastRead, held |-> held, aliased |-> aliased]

Commit(st) ==
    /\ messages' = st.messages
    /\ nadded' = st.nadded
    /\ log' = st.log
    /\ lastRead' = st.lastRead
    /\ held' = st.held
    /\ aliased' = st.aliased

\* a TTL of 0 treated as a real TTL ("ttl is not None")
Expiry_ttl_not_none(ttl) == IF ttl # NoneNum THEN now + ttl ELSE NoneNum

\* expiry = time.time() + ttl if ttl else None
Expiry(ttl) == IF TruthyNum(ttl) THEN now + ttl ELSE NoneNum

NewMessage(sender, message, ttl, id) ==
    [sender |-> sender, message |-> message, expiry |-> Expiry(ttl),
     time |-> TimeLabel(now), id |-> id]

\* the new entry put at the front (insert(0, ...)) instead of appended
Place_front(list, m) == <<m>> \o list

\* list.append
Place(list, m) == Append(list, m)

\* MessageStore.add: appends in place, so a holder of the list object sees it
add(st, sender, message, ttl) ==
    LET m == NewMessage(sender, message, ttl, st.nadded + 1) IN
    [st EXCEPT !.messages = Place(@, m),
               !.held = IF st.aliased THEN Place(@, m) ELSE @,
               !.nadded = @ + 1,
               !.log = Append(@, [at |-> now, ttl |-> ttl, wiped |-> FALSE])]

\* MessageStore.delete_all: clears the list object in place
delete_all(st) ==
    [st EXCEPT !.messages = <<>>,
               !.held = IF st.aliased THEN <<>> ELSE @,
               !.log = [i \in DOMAIN st.log |-> [st.log[i] EXCEPT !.wiped = TRUE]]]

\* eviction that keeps a message at the instant of its expiry (>= for >)
Alive_at_boundary(m) == ~TruthyNum(m.expiry) \/ m.expiry >= now

\* eviction that is computed and thrown away: nothing ever leaves the list
Alive_always(m) == TRUE

\* not m.get("expiry") or m["expiry"] > now
Alive(m) == ~TruthyNum(m.expiry) \/ m.expiry > now

\* MessageStore.cleanup_expired: binds self.messages to a NEW list, so a holder
\* of the old list object keeps the old contents
cleanup_expired(st) ==
    [st EXCEPT !.messages = SelectSeq(@, Alive), !.aliased = FALSE]

\* MessageStore.get_all; its return value is .messages
get_all(st) ==
    LET c == cleanup_expired(st) IN
    [c EXCEPT !.lastRead = [result |-> c.messages, at |-> now, seq |-> c.nadded]]

Ids(list) == {list[i].id : i \in DOMAIN list}

\* ---------------------------------------------------------------- P2PChatApp
\* one bubble of refresh_chat: sender, text, and time_info = the creation label
\* plus the remaining seconds when the message expires and some remain
Bubble(m) ==
    [sender |-> m.sender, message |-> m.message, id |-> m.id,
     time_info |-> <<m.time,
                     IF TruthyNum(m.expiry) /\ m.expiry - now > 0
                     THEN m.expiry - now ELSE NoneNum>>]

\* the loop of refresh_chat over a list
Render(list) == [i \in DOMAIN list |-> Bubble(list[i])]

\* refresh_chat run to completion inside a handler: controls.clear(), get_all(),
\* one bubble per returned message
Refreshed(st) ==
    LET r == get_all(st) IN
    /\ Commit(r)
    /\ chat_list' = Render(r.messages)

\* the positions at which the auto_refresh task is suspended, with one more
\* await between get_all() and the loop of refresh_chat
AwaitPoints_in_refresh == {"ready", "sleep", "iter"}

\* the positions at which the auto_refresh task is suspended: before its first
\* run (run_task) and at `await asyncio.sleep(1)`; refresh_chat has no await
AwaitPoints == {"ready", "sleep"}

\* the scheduler runs a UI handler only while the timer task is suspended
Dispatch == arpc \in AwaitPoints

\* the texts a user can leave in the three text fields
MsgFields == {<<" ">>, <<" ", "h", "i", " ">>}
TtlFields == {<<>>, <<"x">>, <<"0">>, <<" ", "1">>, <<"sup2">>}
RECURSIVE SeqsUpTo(_, _)
SeqsUpTo(S, n) ==
    IF n = 0 THEN {<<>>}
    ELSE LET shorter == SeqsUpTo(S, n - 1)
         IN  shorter \cup {Append(s, c) : s \in shorter, c \in S}
LongIds == {[i \in 1..n |-> "a"] : n \in (KeyPadWidth + 1)..(KeyPadWidth + 2)}
PeerFields ==
    LongIds \cup {<<" ">>, <<" ", "a", " ">>, <<"g">>,
                  <<"a", "a", " ", " ", "a", "a">>}

\* str.isdigit(): non-empty and every character a digit; the superscript two
\* is a digit for isdigit() and not a decimal for int()
IsDigitStr(s) == s # <<>> /\ \A i \in DOMAIN s : IsDecimal(s[i]) \/ s[i] = "sup2"
IntParses(s) == s # <<>> /\ \A i \in DOMAIN s : IsDecimal(s[i])
RECURSIVE IntOf(_)
IntOf(s) == IF s = <<>> THEN 0 ELSE 10 * IntOf(SubSeq(s, 1, Len(s) - 1)) + DecimalVal(s[Len(s)])

\* send_message
send_message(msg_input, ttl_input) ==
    LET msg == Strip(msg_input)
        digits == ttl_input # <<>> /\ IsDigitStr(Strip(ttl_input))
    IN
    /\ Dispatch
    /\ IF msg = <<>>
       THEN /\ raised' = FALSE
            /\ UNCHANGED <<storeVars, chat_list>>
       ELSE IF digits /\ ~IntParses(Strip(ttl_input))
       THEN /\ raised' = TRUE
            /\ UNCHANGED <<storeVars, chat_list>>
       ELSE LET ttl == IF digits THEN IntOf(Strip(ttl_input)) ELSE NoneNum IN
            /\ nadded < MaxAdds
            /\ TruthyNum(ttl) => now + ttl <= MaxClock
            /\ Refreshed(add(StoreState, "You", msg, ttl))
            /\ raised' = FALSE
    /\ UNCHANGED <<now, arpc, connVars, crypto_io>>

\* wipe_chat
wipe_chat ==
    /\ Dispatch
    /\ nadded < MaxAdds
    /\ Refreshed(add(delete_all(StoreState), "System", <<"Chat wiped!">>, NoneNum))
    /\ raised' = FALSE
    /\ UNCHANGED <<now, arpc, connVars, crypto_io>>

\* the try block of connect_to_peer once the identifier has parsed
ConnectOk(pid, key) ==
    /\ set_peer_key(key)
    /\ peer_id' = pid
    /\ is_connected' = TRUE
    /\ status_text' = <<"Connected to ">> \o Take(pid, IdPrefixLen) \o <<"...">>
    /\ connect_btn' = "Connected"
    /\ Refreshed(add(StoreState, "System",
                     <<"Connected to peer ">> \o Take(pid, IdPrefixLen) \o <<"...">>,
                     NoneNum))
    /\ raised' = FALSE

\* str(ex) of the ValueError bytes.fromhex raises
ExText(pos) ==
    <<"non-hexadecimal number found in fromhex() arg at position ">> \o ToDec(pos)

\* f"Connection failed: {ex}"
FailureText(pos) == <<"Connection failed: ">> \o ExText(pos)

\* a handler that marks the session connected before it parses the identifier
ConnectFailed_flag_first(pos) ==
    /\ is_connected' = TRUE
    /\ UNCHANGED <<peer_id, peer_key, status_text, connect_btn>>
    /\ Refreshed(add(StoreState, "System", FailureText(pos), NoneNum))
    /\ raised' = FALSE

\* a handler that drops the session when an attempt fails
ConnectFailed_reset(pos) ==
    /\ is_connected' = FALSE
    /\ UNCHANGED <<peer_id, peer_key, status_text, connect_btn>>
    /\ Refreshed(add(StoreState, "System", FailureText(pos), NoneNum))
    /\ raised' = FALSE

\* the except block of connect_to_peer
ConnectFailed(pos) ==
    /\ UNCHANGED connVars
    /\ Refreshed(add(StoreState, "System", FailureText(pos), NoneNum))
    /\ raised' = FALSE

\* bytes.fromhex(peer_id.ljust(64, '0')), tabulated over the identifiers that
\* can reach connect_to_peer
ParseKeyTable ==
    [pid \in {Strip(f) : f \in PeerFields} |-> FromHex(Ljust(pid, KeyPadWidth, "0"))]
ParseKey(pid) == ParseKeyTable[pid]

\* connect_to_peer
connect_to_peer(pid) ==
    LET r == ParseKey(pid) IN
    /\ nadded < MaxAdds
    /\ IF r.ok THEN ConnectOk(pid, r.bytes) ELSE ConnectFailed(r.pos)
    /\ UNCHANGED <<now, arpc, crypto_io>>

\* show_connect_dialog.connect: the Connect button of the dialog
connect(peer_input) ==
    LET pid == Strip(peer_input) IN
    /\ Dispatch
    /\ IF pid # <<>>
       THEN connect_to_peer(pid)
       ELSE /\ raised' = FALSE
            /\ UNCHANGED <<now, arpc, crypto_io, storeVars, chat_list, connVars>>

\* auto_refresh, first half of refresh_chat: controls.clear() and get_all()
AutoRefreshBegin ==
    /\ arpc = "ready"
    /\ LET r == get_all(StoreState) IN
       Commit([r EXCEPT !.held = r.messages, !.aliased = TRUE])
    /\ chat_list' = <<>>
    /\ arpc' = "iter"
    /\ UNCHANGED <<now, connVars, raised, crypto_io>>

\* auto_refresh, second half of refresh_chat: the loop over the returned list
\* and page.update(), then `await asyncio.sleep(1)`
AutoRefreshRender ==
    /\ arpc = "iter"
    /\ chat_list' = chat_list \o Render(held)
    /\ held' = <<>>
    /\ aliased' = FALSE
    /\ arpc' = "sleep"
    /\ UNCHANGED <<now, messages, nadded, log, lastRead, connVars, raised, crypto_io>>

\* auto_refresh: the sleep is over, the loop goes round
AutoRefreshWake ==
    /\ arpc = "sleep"
    /\ arpc' = "ready"
    /\ UNCHANGED <<now, storeVars, chat_list, connVars, raised, crypto_io>>

\* the wall clock advances
Tick ==
    /\ now < MaxClock
    /\ now' = now + 1
    /\ UNCHANGED <<storeVars, arpc, chat_list, connVars, raised, crypto_io>>

\* P2PChatApp.__init__ (CryptoManager.__init__, MessageStore.__init__)
Init ==
    /\ now = 0
    /\ messages = <<>>
    /\ nadded = 0
    /\ log = <<>>
    /\ lastRead = [result |-> <<>>, at |-> 0, seq |-> 0]
    /\ held = <<>>
    /\ aliased = FALSE
    /\ arpc = "ready"
    /\ chat_list = <<>>
    /\ is_connected = FALSE
    /\ peer_id = NoneText
    /\ peer_key = NoneBytes
    /\ status_text = <<"Not Connected">>
    /\ connect_btn = "Connect"
    /\ raised = FALSE
    /\ crypto_io = [plaintext |-> NoneBytes, ciphertext |-> NoneBytes,
                    decrypted |-> NoneBytes, encKey |-> NoneBytes,
                    decKey |-> NoneBytes]

Next ==
    \/ Tick
    \/ \E m \in MsgFields, t \in TtlFields : send_message(m, t)
    \/ wipe_chat
    \/ \E f \in PeerFields : connect(f)
    \/ AutoRefreshBegin
    \/ AutoRefreshRender
    \/ AutoRefreshWake

Spec == Init /\ [][Next]_vars

FairSpec ==
    /\ Spec
    /\ WF_vars(Tick)
    /\ WF_vars(AutoRefreshBegin)
    /\ WF_vars(AutoRefreshRender)
    /\ WF_vars(AutoRefreshWake)

\* ------------------------------------------- MessageStore called on its own
StoreTtls == {NoneNum, 0, 1, 2}

StoreAdd(ttl) ==
    /\ nadded < MaxStoreAdds
    /\ Commit(add(StoreState, "You", <<"h", "i">>, ttl))
    /\ UNCHANGED <<now, arpc, chat_list, connVars, raised, crypto_io>>

StoreGetAll ==
    /\ Commit(get_all(StoreState))
    /\ UNCHANGED <<now, arpc, chat_list, connVars, raised, crypto_io>>

StoreDeleteAll ==
    /\ Commit(delete_all(StoreState))
    /\ UNCHANGED <<now, arpc, chat_list, connVars, raised, crypto_io>>

NextStore ==
    \/ Tick
    \/ \E ttl \in StoreTtls : StoreAdd(ttl)
    \/ StoreGetAll
    \/ StoreDeleteAll

SpecStore == Init /\ [][NextStore]_vars

\* ------------------------------------------ CryptoManager called on its own
ByteSamples == {90, 255}
KeySamples == SeqsUpTo(ByteSamples, MaxKeyLen)
PlainSamples == SeqsUpTo(ByteSamples, MaxPlainLen)

CryptoSetPeerKey(k) ==
    /\ set_peer_key(k)
    /\ UNCHANGED <<now, storeVars, arpc, chat_list, is_connected, peer_id,
                   status_text, connect_btn, raised, crypto_io>>

CryptoEncrypt(p) ==
    /\ crypto_io' = [plaintext |-> p, ciphertext |-> encrypt(peer_key, p),
                     decrypted |-> NoneBytes, encKey |-> peer_key,
                     decKey |-> NoneBytes]
    /\ UNCHANGED <<now, storeVars, arpc, chat_list, connVars, raised>>

CryptoDecrypt ==
    /\ crypto_io.ciphertext # NoneBytes
    /\ crypto_io' = [crypto_io EXCEPT
                        !.decrypted = decrypt(peer_key, crypto_io.ciphertext),
                        !.decKey = peer_key]
    /\ UNCHANGED <<now, storeVars, arpc, chat_list, connVars, raised>>

NextCrypto ==
    \/ \E k \in KeySamples : CryptoSetPeerKey(k)
    \/ \E p \in PlainSamples : CryptoEncrypt(p)
    \/ CryptoDecrypt

SpecCrypto == Init /\ [][NextCrypto]_vars

\* ------------------------------------------------------------------ claims
IdSeq(list) == [i \in DOMAIN list |-> list[i].id]
Evicted(i) == i \in DOMAIN log /\ ~log[i].wiped /\ i \notin Ids(messages)

\* C1: a message added with ttl = t > 0 at clock c and not wiped since is in
\* the result of every get_all performed at a clock below c + t, and in the
\* result of no get_all performed at c + t or later.
C1_TtlExpiry ==
    \A i \in DOMAIN log :
        (log[i].ttl > 0 /\ ~log[i].wiped /\ i <= lastRead.seq)
            => ((lastRead.at < log[i].at + log[i].ttl) <=> (i \in Ids(lastRead.result)))

\* a get_all at the very instant c + t, which no longer returns the message
C1_Witness ==
    \E i \in DOMAIN log :
        /\ log[i].ttl > 0 /\ ~log[i].wiped /\ i <= lastRead.seq
        /\ lastRead.at = log[i].at + log[i].ttl
        /\ i \notin Ids(lastRead.result)

\* C2: a connect_to_peer whose identifier fails hex parsing does not raise,
\* appends exactly one System message reporting the failure, and leaves
\* is_connected, peer_id and the peer key as they were.
C2_FailedConnect ==
    [][\A f \in PeerFields :
        (Strip(f) # <<>> /\ ~ParseKey(Strip(f)).ok /\ connect_to_peer(Strip(f)))
            => /\ raised' = FALSE
               /\ is_connected' = is_connected
               /\ peer_id' = peer_id
               /\ peer_key' = peer_key
               /\ nadded' = nadded + 1
               /\ Ids(messages') \subseteq Ids(messages) \cup {nadded'}
               /\ messages' # <<>>
               /\ LET m == messages'[Len(messages')] IN
                  /\ m.id = nadded'
                  /\ m.sender = "System"
                  /\ Head(m.message) = "Connection failed: "]_vars

\* a failed attempt on a session that was never connected
C2_Witness ==
    /\ ~is_connected /\ peer_id = NoneText /\ peer_key = NoneBytes /\ ~raised
    /\ \E k \in DOMAIN messages :
        messages[k].sender = "System" /\ Head(messages[k].message) = "Connection failed: "

\* C3: with a non-empty peer key that is the same at both calls,
\* decrypt(encrypt(P)) = P.
C3_RoundTrip ==
    (/\ crypto_io.decrypted # NoneBytes
     /\ TruthyBytes(crypto_io.encKey)
     /\ crypto_io.decKey = crypto_io.encKey)
        => crypto_io.decrypted = crypto_io.plaintext

\* a round trip of a plaintext longer than the key, which the key changed
C3_Witness ==
    /\ crypto_io.decrypted # NoneBytes
    /\ TruthyBytes(crypto_io.encKey)
    /\ crypto_io.decKey = crypto_io.encKey
    /\ Len(crypto_io.plaintext) > Len(crypto_io.encKey)
    /\ crypto_io.ciphertext # crypto_io.plaintext
    /\ crypto_io.decrypted = crypto_io.plaintext

\* C4: the session starts disconnected, becomes connected only by a
\* connect_to_peer whose identifier parses, and once connected stays connected.
C4_OneWay ==
    /\ ~is_connected
    /\ [][/\ is_connected => is_connected'
          /\ (~is_connected /\ is_connected')
                => \E f \in PeerFields :
                      /\ Strip(f) # <<>>
                      /\ ParseKey(Strip(f)).ok
                      /\ connect_to_peer(Strip(f))]_vars

\* a connected session whose latest message reports a failed attempt
C4_Witness ==
    /\ is_connected
    /\ messages # <<>>
    /\ Head(messages[Len(messages)].message) = "Connection failed: "

\* C5: once a peer key is stored, no later step changes the peer key or peer_id.
C5_KeySetOnce ==
    [][is_connected => (peer_key' = peer_key /\ peer_id' = peer_id)]_vars

\* C6: what get_all returns (and what the store holds) is in the order of
\* addition, without duplicates.
C6_OrderPreserved ==
    /\ \A i, j \in DOMAIN lastRead.result :
          i < j => lastRead.result[i].id < lastRead.result[j].id
    /\ \A i, j \in DOMAIN messages : i < j => messages[i].id < messages[j].id

\* a get_all that returned two messages after evicting one added between them
C6_Witness ==
    /\ Len(lastRead.result) >= 2
    /\ \E k \in DOMAIN log :
          /\ Evicted(k)
          /\ lastRead.result[1].id < k
          /\ k < lastRead.result[2].id

\* C7: a message added with no TTL or a TTL of 0, and not wiped since, has no
\* expiry, stays in the store and is in the result of every later get_all.
C7_NoTtlNeverExpires ==
    \A i \in DOMAIN log :
        (~TruthyNum(log[i].ttl) /\ ~log[i].wiped)
            => /\ \E k \in DOMAIN messages :
                     messages[k].id = i /\ messages[k].expiry = NoneNum
               /\ i <= lastRead.seq => i \in Ids(lastRead.result)

\* the only message added was sent with "0" in the TTL field, and the timer's
\* get_all returns it two ticks on
C7_Witness ==
    /\ nadded = 1
    /\ log[1].ttl = 0
    /\ messages[1].sender = "You"
    /\ lastRead.at >= log[1].at + 2
    /\ 1 \in Ids(lastRead.result)

\* C8: after a successful connect the peer key is the hex decoding of the
\* identifier right-padded with '0' to 64 characters, and is 32 bytes long.
C8_KeyIs32Bytes ==
    is_connected =>
        /\ peer_key = FromHex(Ljust(peer_id, 64, "0")).bytes
        /\ Len(peer_key) = 32

\* C9: between the get_all of a refresh and its loop nothing touches the list
\* it returned, and whenever no refresh is under way the rendered list is the
\* store's list, message for message.
C9_RefreshAtomic ==
    /\ arpc = "iter" => (aliased /\ held = messages /\ chat_list = <<>>)
    /\ arpc # "iter" => IdSeq(chat_list) = IdSeq(messages)

\* a timer refresh that evicted a message and rendered the rest
C9_Witness ==
    /\ arpc = "sleep"
    /\ nadded >= 1
    /\ lastRead.seq = nadded
    /\ lastRead.at > log[nadded].at
    /\ chat_list # <<>>
    /\ \E k \in DOMAIN log : Evicted(k)

Expiring(i) ==
    \E k \in DOMAIN messages : messages[k].id = i /\ TruthyNum(messages[k].expiry)
Gone(i) == i \notin Ids(messages) /\ i \notin Ids(chat_list)

\* C10: a message with an expiry eventually leaves the store and the rendered
\* list; a message that has left the store is in no later store or result.
C10_EventuallyRemoved ==
    /\ \A i \in 1..MaxAdds : Expiring(i) ~> Gone(i)
    /\ [][\A i \in 1..nadded :
            i \notin Ids(messages)
                => (i \notin Ids(messages') /\ i \notin Ids(lastRead'.result))]_vars

\* the only message ever added had a TTL and the timer's refresh removed it
C10_Witness ==
    /\ nadded = 1
    /\ log[1].ttl > 0
    /\ Gone(1)
    /\ lastRead.at >= log[1].at + log[1].ttl
    /\ arpc = "sleep"

====
